---- MODULE Spec2Model ----
(***************************************************************************)
(* Model of dcos_test_utils/dcos_api.py: the DcosApiSession object, its    *)
(* login, topology discovery and the readiness sequence wait_for_dcos.     *)
(* Every attempt of a retried method is one step; the HTTP responses of    *)
(* the cluster are the inputs of a step.                                   *)
(***************************************************************************)
EXTENDS Integers, Sequences, FiniteSets, TLC

(***************************************************************************)
(* Bounds of the model.                                                    *)
(***************************************************************************)
\* host identifiers are 1..MaxHost
MaxHost == 1
\* attempt numbers of the uncapped retry loops are counted up to MaxPoll
MaxPoll == 3
\* auth tokens are 1..MaxToken
MaxToken == 1
\* a login request answers at once or after up to MaxLatency periods of
\* LoginStopMaxDelay milliseconds
MaxLatency == 1

(***************************************************************************)
(* Program constants: the arguments of the retrying.retry decorators.      *)
(***************************************************************************)
LoginWaitFixed == 5000
LoginStopMaxDelay == 120 * 1000
SrouterStopMaxAttemptNumber == 60

Hosts == 1..MaxHost
Tokens == 1..MaxToken

\* Python's None for a node list (a list of hosts never holds 0)
None == <<0>>
\* Python's None for auth_user.auth_token and for session.auth
NoToken == 0

(***************************************************************************)
(* sorted(): insertion sort on sequences of host identifiers.              *)
(***************************************************************************)
RECURSIVE Insert(_, _)
Insert(x, s) ==
    IF s = <<>> THEN <<x>>
    ELSE IF x <= Head(s) THEN <<x>> \o s
    ELSE <<Head(s)>> \o Insert(x, Tail(s))

RECURSIVE sorted(_)
sorted(s) == IF s = <<>> THEN <<>> ELSE Insert(Head(s), sorted(Tail(s)))

RECURSIVE SetToSortedSeq(_)
SetToSortedSeq(S) ==
    IF S = {} THEN <<>>
    ELSE LET m == CHOOSE x \in S : \A y \in S : x <= y
         IN <<m>> \o SetToSortedSeq(S \ {m})

Range(s) == {s[i] : i \in 1..Len(s)}

\* the list n, n-1, ..., 1: an unsorted list of n hosts
RECURSIVE Desc(_)
Desc(n) == IF n = 0 THEN <<>> ELSE <<n>> \o Desc(n - 1)

\* the list 1, 2, ..., n
Asc(n) == [i \in 1..n |-> i]

\* the sets of hosts a listing of the agents may report, and the sets of
\* those that may be public
ListedSets == {1..n : n \in 0..MaxHost}
PublicSets(listed) == {{h \in listed : h > m} : m \in 0..Cardinality(listed)}

\* the node lists a session is constructed with
SuppliedLists == {None, << >>, Asc(MaxHost)}

(***************************************************************************)
(* The methods of DcosApiSession that wait_for_dcos runs, by name, and the *)
(* statements of the body of wait_for_dcos in program order.               *)
(***************************************************************************)
AdminRouter == "_wait_for_adminrouter_up"
Login == "login_default_user"
HostCheck == "wait_for_hosts check"
Nodes == "set_node_lists_if_unset"
Marathon == "_wait_for_marathon_up"
Zk == "_wait_for_zk_quorum"
Slaves == "_wait_for_slaves_to_join"
Srouter == "_wait_for_srouter_slaves_endpoints"
Metronome == "_wait_for_metronome"
Health == "_wait_for_all_healthy_services"

wait_for_dcos ==
    << AdminRouter, Login, HostCheck, Nodes, Marathon, Zk, Slaves, Srouter,
       Metronome, Health >>

\* NextStatement with the scheduler and quorum checks in the other order
NextStatement_QuorumFirst(m) ==
    LET body == << AdminRouter, Login, HostCheck, Nodes, Zk, Marathon, Slaves,
                   Srouter, Metronome, Health >>
        i == CHOOSE j \in 1..Len(body) : body[j] = m
    IN IF i = Len(body) THEN "done" ELSE body[i + 1]

\* NextStatement with login after topology discovery
NextStatement_DiscoveryBeforeLogin(m) ==
    LET body == << AdminRouter, HostCheck, Nodes, Login, Marathon, Zk, Slaves,
                   Srouter, Metronome, Health >>
        i == CHOOSE j \in 1..Len(body) : body[j] = m
    IN IF i = Len(body) THEN "done" ELSE body[i + 1]

\* the statement of wait_for_dcos that follows statement m ("done" after the last)
NextStatement(m) ==
    LET i == CHOOSE j \in 1..Len(wait_for_dcos) : wait_for_dcos[j] = m
    IN IF i = Len(wait_for_dcos) THEN "done" ELSE wait_for_dcos[i + 1]

(***************************************************************************)
(* HTTP: the status codes a response may carry, and what get/post may do.  *)
(***************************************************************************)
Statuses == {200, 204, 401, 404, 500, 502, 503, 504}

\* requests.Response.ok / raise_for_status(): an error status is 400..599
IsErrorStatus(status) == status >= 400 /\ status < 600

\* a request either yields a response or raises
Responses ==
    [kind : {"response"}, status : Statuses]
    \cup [kind : {"ConnectionError", "Timeout"}, status : {0}]

\* what one attempt of a method does: return a value or raise an exception
Return(v) == [kind |-> "return", value |-> v, exc |-> "none"]
Raise(e) == [kind |-> "raise", value |-> "none", exc |-> e]

(***************************************************************************)
(* The retrying.retry decorators of the methods.                           *)
(***************************************************************************)
Retried == {AdminRouter, Login, Marathon, Zk, Slaves, Srouter, Metronome, Health}

\* retry_on_result=lambda ret: not ret, which holds of None as well
retry_on_result_Falsy(m, value) ==
    /\ m \in {AdminRouter, Marathon, Slaves, Srouter, Metronome, Health}
    /\ value \in {"False", "None"}

\* retry_on_result=lambda ret: ret is False (absent: never retry on a result)
retry_on_result(m, value) ==
    /\ m \in {AdminRouter, Marathon, Slaves, Srouter, Metronome, Health}
    /\ value = "False"

\* every decorator retrying on every exception
retry_on_exception_Always(m) == TRUE

\* retry_on_exception=lambda x: False (absent: retry on every exception)
retry_on_exception(m) == m \in {Login, Zk}

\* stop with the attempt cap compared by > in place of >=
stop_OffByOne(m, attempt_number, delay_since_first_attempt_ms) ==
    \/ m = Srouter /\ attempt_number > SrouterStopMaxAttemptNumber
    \/ m = Login /\ delay_since_first_attempt_ms >= LoginStopMaxDelay

\* stop with an attempt cap on the scheduler check as well
stop_CapMarathon(m, attempt_number, delay_since_first_attempt_ms) ==
    \/ m = Srouter /\ attempt_number >= SrouterStopMaxAttemptNumber
    \/ m = Marathon /\ attempt_number >= 2
    \/ m = Login /\ delay_since_first_attempt_ms >= LoginStopMaxDelay

\* stop with stop_max_delay taken for seconds: 120 * 1000 s
stop_DelayInSeconds(m, attempt_number, delay_since_first_attempt_ms) ==
    \/ m = Srouter /\ attempt_number >= SrouterStopMaxAttemptNumber
    \/ m = Login /\ delay_since_first_attempt_ms >= LoginStopMaxDelay * 1000

\* stop with half the delay for login
stop_HalfDelay(m, attempt_number, delay_since_first_attempt_ms) ==
    \/ m = Srouter /\ attempt_number >= SrouterStopMaxAttemptNumber
    \/ m = Login /\ delay_since_first_attempt_ms * 2 >= LoginStopMaxDelay

\* stop_max_attempt_number and stop_max_delay (absent: never stop)
stop(m, attempt_number, delay_since_first_attempt_ms) ==
    \/ m = Srouter /\ attempt_number >= SrouterStopMaxAttemptNumber
    \/ m = Login /\ delay_since_first_attempt_ms >= LoginStopMaxDelay

\* Retrying.should_reject
should_reject(m, outcome) ==
    IF outcome.kind = "raise" THEN retry_on_exception(m)
    ELSE retry_on_result(m, outcome.value)

\* Retrying.call after one attempt: return its value, raise, or try again.
\* An undecorated method returns or raises what its body does.
call(m, outcome, attempt_number, delay_since_first_attempt_ms) ==
    IF m \notin Retried \/ ~should_reject(m, outcome)
    THEN [act |-> outcome.kind, exc |-> outcome.exc]
    ELSE IF stop(m, attempt_number, delay_since_first_attempt_ms)
    THEN [act |-> "raise",
          exc |-> IF outcome.kind = "raise" THEN outcome.exc ELSE "RetryError"]
    ELSE [act |-> "retry", exc |-> "none"]

(***************************************************************************)
(* State: the fields of the session object, the position of the call in    *)
(* progress, and a record of what the last step did.                       *)
(***************************************************************************)
VARIABLES
    master_list,        \* self.master_list: None or a list of hosts
    slave_list,         \* self.slave_list
    public_slave_list,  \* self.public_slave_list
    auth_user,          \* self.auth_user: "None" or "user"
    auth_token,         \* self.auth_user.auth_token: NoToken or a token
    session_auth,       \* self.session.auth: NoToken or the token of a DcosAuth
    op,                 \* the public method last invoked by the caller, or "none"
    pc,                 \* the statement (method) the call is at
    attempt,            \* attempts the current retry loop has made
    elapsed,            \* ms since the first attempt of the current retry loop
    result,             \* "none" while the call runs, then "returned" or its exception
    started,            \* statements of the call that have been started, in order
    returned,           \* statements of the call that have returned, in order
    sent,               \* the HTTP requests the last step sent, in order
    last,               \* the responses the last step got and what it made of them
    cookies,            \* self.session.cookies: the names of the cookies held
    arg,                \* the argument of the public method invoked, "none" without
    new,                \* the session object copy() made for the call, or NoNew
    ready               \* the cluster: TRUE once every probe gets its ready answer

vars ==
    << master_list, slave_list, public_slave_list, auth_user, auth_token,
       session_auth, op, pc, attempt, elapsed, result, started, returned, sent,
       last, cookies, arg, new, ready >>

session == << master_list, slave_list, public_slave_list, auth_user, auth_token, session_auth >>

\* a request: the path, and the agent id of a per-agent path (0 otherwise)
Req(path) == [path |-> path, id |-> 0]
AgentReq(id) == [path |-> "/slave/{}/slave%281%29/state", id |-> id]

NoLast ==
    [m |-> "none", rk |-> "none", status |-> 0, rk2 |-> "none", status2 |-> 0,
     env |-> "none",
     servers |-> <<>>,
     slaves |-> {}, public |-> {}, n |-> 0, kind |-> "none", value |-> "none",
     exc |-> "none", act |-> "call"]

\* the id the cluster gives the agent on host h
AgentId(h) == MaxHost + 1 - h

\* no session object has been made by copy()
NoNew ==
    [made |-> FALSE, master_list |-> None, slave_list |-> None,
     public_slave_list |-> None, auth_user |-> "None", user_token |-> NoToken,
     session_auth |-> NoToken, cookies |-> {}]

\* the fields of the session that wait_for_dcos and its statements leave alone
others == << cookies, arg, new, ready >>

(***************************************************************************)
(* The properties masters and all_slaves.                                  *)
(***************************************************************************)
masters == sorted(master_list)
slaves == sorted(slave_list)
public_slaves == sorted(public_slave_list)
\* all_slaves without the outer sorted()
all_slaves_Joined == slaves \o public_slaves

all_slaves == sorted(slaves \o public_slaves)

(***************************************************************************)
(* The bodies of the methods: what one attempt returns or raises, given    *)
(* the responses it gets.                                                  *)
(***************************************************************************)
\* _wait_for_adminrouter_up taking an error status for "not up"
adminrouter_up_StatusChecked(r) ==
    IF r.kind = "response"
    THEN IF IsErrorStatus(r.status) THEN Return("False") ELSE Return("True")
    ELSE IF r.kind = "ConnectionError" THEN Return("False")
    ELSE Raise(r.kind)

\* _wait_for_adminrouter_up: any response is "up", a ConnectionError is False
adminrouter_up(r) ==
    IF r.kind = "response" THEN Return("True")
    ELSE IF r.kind = "ConnectionError" THEN Return("False")
    ELSE Raise(r.kind)

\* _wait_for_marathon_up
marathon_up(r) ==
    IF r.kind # "response" THEN Raise(r.kind)
    ELSE IF r.status = 200 THEN Return("True")
    ELSE Return("False")

\* _wait_for_zk_quorum content with at least as many nodes as masters
zk_quorum_AtLeast(r, n) ==
    IF r.kind # "response" THEN Raise(r.kind)
    ELSE IF IsErrorStatus(r.status) THEN Raise("HTTPError")
    ELSE IF n < Len(masters) THEN Raise("AssertionError")
    ELSE Return("None")

\* _wait_for_zk_quorum: n is the number of nodes in the status body
zk_quorum(r, n) ==
    IF r.kind # "response" THEN Raise(r.kind)
    ELSE IF IsErrorStatus(r.status) THEN Raise("HTTPError")
    ELSE IF n # Len(masters) THEN Raise("AssertionError")
    ELSE Return("None")

\* _wait_for_slaves_to_join wanting more agents than expected (> for >=)
slaves_to_join_Strict(r, n) ==
    IF r.kind # "response" THEN Raise(r.kind)
    ELSE IF r.status # 200 THEN Return("False")
    ELSE IF n > Len(all_slaves) THEN Return("True")
    ELSE Return("False")

\* _wait_for_slaves_to_join: n is len(data['slaves'])
slaves_to_join(r, n) ==
    IF r.kind # "response" THEN Raise(r.kind)
    ELSE IF r.status # 200 THEN Return("False")
    ELSE IF n >= Len(all_slaves) THEN Return("True")
    ELSE Return("False")

\* _wait_for_metronome retrying on the expected_error_codes alone
metronome_up_ExpectedOnly(r) ==
    IF r.kind # "response" THEN Raise(r.kind)
    ELSE IF r.status \in {404, 504} THEN Return("False")
    ELSE IF r.status # 200 THEN Raise("AssertionError")
    ELSE Return("None")

\* _wait_for_metronome
metronome_up(r) ==
    IF r.kind # "response" THEN Raise(r.kind)
    ELSE IF r.status \in {404, 504} \/ r.status >= 500 THEN Return("False")
    ELSE IF r.status # 200 THEN Raise("AssertionError")
    ELSE Return("None")

\* _wait_for_all_healthy_services looking at the status alone
all_healthy_services_NoUnits(r, n) ==
    IF r.kind # "response" THEN Raise(r.kind)
    ELSE IF IsErrorStatus(r.status) THEN Raise("HTTPError")
    ELSE Return("True")

\* _wait_for_all_healthy_services: n is the number of units with health != 0
all_healthy_services(r, n) ==
    IF r.kind # "response" THEN Raise(r.kind)
    ELSE IF IsErrorStatus(r.status) THEN Raise("HTTPError")
    ELSE IF n = 0 THEN Return("True")
    ELSE Return("False")

\* the per-agent responses of one attempt of _wait_for_srouter_slaves_endpoints
Probes ==
    [kind : {"response"}, status : {200}, id : {"match", "mismatch", "missing"}]
    \cup [kind : {"response"}, status : Statuses \ {200}, id : {"missing"}]
    \cup [kind : {"ConnectionError", "Timeout"}, status : {0}, id : {"missing"}]

ProbeOk == [kind |-> "response", status |-> 200, id |-> "match"]

in_progress_status_codes == {404, 502, 503}

\* slaves_ids without the filter on the hostname: every listed agent
slaves_ids_All(listed) ==
    SetToSortedSeq({AgentId(h) : h \in listed})

\* slaves_ids: the sorted ids of the listed agents whose hostname is expected
slaves_ids(listed) ==
    SetToSortedSeq({AgentId(h) : h \in {x \in listed : x \in Range(all_slaves)}})

\* _wait_for_srouter_slaves_endpoints: listed are the hosts of data['slaves'];
\* probes 1..k-1 answer 200 with the agent's id and probe k answers p
\* (k = 0: every probe answers 200 with the agent's id)
srouter_slaves_endpoints(r, listed, k, p) ==
    IF r.kind # "response" THEN Raise(r.kind)
    ELSE IF r.status = 502 THEN Return("False")
    ELSE IF r.status # 200 THEN Raise("AssertionError")
    ELSE IF k = 0 THEN Return("None")
    ELSE IF p.kind # "response" THEN Raise(p.kind)
    ELSE IF p.status \in in_progress_status_codes THEN Return("False")
    ELSE IF p.status # 200 THEN Raise("AssertionError")
    ELSE IF p.id # "match" THEN Raise("AssertionError")
    ELSE Return("None")

\* the requests of that attempt
srouter_requests(r, listed, k) ==
    LET ids == slaves_ids(listed)
        n == IF k = 0 THEN Len(ids) ELSE k
    IN << Req("/mesos/master/slaves") >>
       \o (IF r.kind = "response" /\ r.status = 200
           THEN [i \in 1..n |-> AgentReq(ids[i])] ELSE << >>)

NoResponse == [kind |-> "none", status |-> 0]

\* login_default_user without the early return for a token that is already set
login_default_user_Relogin(r, tok) ==
    IF auth_user = "None"
    THEN [outcome |-> Return("None"), auth_token |-> auth_token,
          session_auth |-> session_auth, sent |-> << >>]
    ELSE LET out == IF r.kind # "response" THEN Raise("ConnectionError")
                    ELSE IF IsErrorStatus(r.status) THEN Raise("HTTPError")
                    ELSE IF tok = NoToken THEN Raise("KeyError")
                    ELSE Return("None")
         IN [outcome |-> out,
             auth_token |-> IF out.kind = "return" THEN tok ELSE auth_token,
             session_auth |-> IF out.kind = "return" THEN tok ELSE session_auth,
             sent |-> << Req("/acs/api/v1/auth/login") >>]

\* login_default_user storing the token of the body before raise_for_status
login_default_user_TokenBeforeStatus(r, tok) ==
    IF auth_user = "None"
    THEN [outcome |-> Return("None"), auth_token |-> auth_token,
          session_auth |-> session_auth, sent |-> << >>]
    ELSE IF auth_token # NoToken
    THEN [outcome |-> Return("None"), auth_token |-> auth_token,
          session_auth |-> auth_token, sent |-> << >>]
    ELSE LET out == IF r.kind # "response" THEN Raise(r.kind)
                    ELSE IF tok = NoToken THEN Raise("KeyError")
                    ELSE IF IsErrorStatus(r.status) THEN Raise("HTTPError")
                    ELSE Return("None")
         IN [outcome |-> out,
             auth_token |-> IF r.kind = "response" THEN tok ELSE auth_token,
             session_auth |-> IF out.kind = "return" THEN tok ELSE session_auth,
             sent |-> << Req("/acs/api/v1/auth/login") >>]

\* login_default_user: r answers the login request, tok is the token of its
\* body (NoToken: the body has none)
login_default_user(r, tok) ==
    IF auth_user = "None"
    THEN [outcome |-> Return("None"), auth_token |-> auth_token,
          session_auth |-> session_auth, sent |-> << >>]
    ELSE IF auth_token # NoToken
    THEN [outcome |-> Return("None"), auth_token |-> auth_token,
          session_auth |-> auth_token, sent |-> << >>]
    ELSE LET out == IF r.kind # "response" THEN Raise(r.kind)
                    ELSE IF IsErrorStatus(r.status) THEN Raise("HTTPError")
                    ELSE IF tok = NoToken THEN Raise("KeyError")
                    ELSE Return("None")
         IN [outcome |-> out,
             auth_token |-> IF out.kind = "return" THEN tok ELSE auth_token,
             session_auth |-> IF out.kind = "return" THEN tok ELSE session_auth,
             sent |-> << Req("/acs/api/v1/auth/login") >>]

\* whether an attempt of login_default_user sends the login request
LoginRequests == auth_user # "None" /\ auth_token = NoToken

\* r.json()['slaves'] of /mesos/slaves: the listed hosts, those of pub public
slaves_json(listed, pub) ==
    LET hs == Desc(MaxHost)
        all == [i \in 1..Len(hs) |->
                   [hostname |-> hs[i],
                    public_ip |-> IF hs[i] \in pub THEN "true" ELSE "false"]]
    IN SelectSeq(all, LAMBDA a : a.hostname \in listed)

Hostnames(json) == [i \in 1..Len(json) |-> json[i].hostname]
IsPublic(a) == a.public_ip = "true"
IsPrivate(a) == a.public_ip # "true"

\* set_node_lists_if_unset asking exhibitor whether or not master_list is set
set_node_lists_if_unset_AlwaysAsk(r1, servers, r2, listed, pub) ==
    LET ok1 == r1.kind # "response" \/ ~IsErrorStatus(r1.status)
        askSlaves == ~(slave_list # None /\ public_slave_list # None)
        ok2 == ~askSlaves \/ (r2.kind = "response" /\ ~IsErrorStatus(r2.status))
        json == slaves_json(listed, pub)
    IN [outcome |-> IF ok1 /\ ok2 THEN Return("None") ELSE Raise("HTTPError"),
        master_list |-> IF ok1 THEN sorted(servers) ELSE master_list,
        slave_list |->
            IF askSlaves /\ ok2 /\ slave_list = None
            THEN sorted(Hostnames(SelectSeq(json, IsPrivate))) ELSE slave_list,
        public_slave_list |->
            IF askSlaves /\ ok2 /\ public_slave_list = None
            THEN sorted(Hostnames(SelectSeq(json, IsPublic))) ELSE public_slave_list,
        sent |->
            << Req("/exhibitor/exhibitor/v1/cluster/list") >>
            \o (IF askSlaves THEN << Req("/mesos/slaves") >> ELSE << >>)]

\* set_node_lists_if_unset leaving master_list alone
set_node_lists_if_unset_NoMasters(r1, servers, r2, listed, pub) ==
    LET askSlaves == ~(slave_list # None /\ public_slave_list # None)
        ok2 == ~askSlaves \/ (r2.kind = "response" /\ ~IsErrorStatus(r2.status))
        json == slaves_json(listed, pub)
    IN [outcome |-> IF ok2 THEN Return("None") ELSE Raise("HTTPError"),
        master_list |-> master_list,
        slave_list |->
            IF askSlaves /\ ok2 /\ slave_list = None
            THEN sorted(Hostnames(SelectSeq(json, IsPrivate))) ELSE slave_list,
        public_slave_list |->
            IF askSlaves /\ ok2 /\ public_slave_list = None
            THEN sorted(Hostnames(SelectSeq(json, IsPublic))) ELSE public_slave_list,
        sent |-> IF askSlaves THEN << Req("/mesos/slaves") >> ELSE << >>]

\* set_node_lists_if_unset taking the worker lists from the cluster on every
\* call, whether or not they are set
set_node_lists_if_unset_Refresh(r1, servers, r2, listed, pub) ==
    LET askMasters == master_list = None
        ok1 == ~askMasters \/ (r1.kind = "response" /\ ~IsErrorStatus(r1.status))
        ok2 == r2.kind # "response" \/ ~IsErrorStatus(r2.status)
        json == slaves_json(listed, pub)
    IN [outcome |-> IF ok1 /\ ok2 THEN Return("None") ELSE Raise("HTTPError"),
        master_list |->
            IF askMasters /\ ok1 THEN sorted(servers) ELSE master_list,
        slave_list |->
            IF ok1 /\ ok2
            THEN sorted(Hostnames(SelectSeq(json, IsPrivate))) ELSE slave_list,
        public_slave_list |->
            IF ok1 /\ ok2
            THEN sorted(Hostnames(SelectSeq(json, IsPublic))) ELSE public_slave_list,
        sent |->
            (IF askMasters THEN << Req("/exhibitor/exhibitor/v1/cluster/list") >>
             ELSE << >>)
            \o << Req("/mesos/slaves") >>]

\* set_node_lists_if_unset without the filter on public_ip for the private list
set_node_lists_if_unset_AllPrivate(r1, servers, r2, listed, pub) ==
    LET askMasters == master_list = None
        ok1 == ~askMasters \/ (r1.kind = "response" /\ ~IsErrorStatus(r1.status))
        askSlaves == ok1 /\ ~(slave_list # None /\ public_slave_list # None)
        ok2 == ~askSlaves \/ (r2.kind = "response" /\ ~IsErrorStatus(r2.status))
        json == slaves_json(listed, pub)
        bad == IF ~ok1 THEN r1 ELSE r2
    IN [outcome |->
            IF ok1 /\ ok2 THEN Return("None")
            ELSE IF bad.kind # "response" THEN Raise(bad.kind)
            ELSE Raise("HTTPError"),
        master_list |->
            IF askMasters /\ ok1 THEN sorted(servers) ELSE master_list,
        slave_list |->
            IF askSlaves /\ ok2 /\ slave_list = None
            THEN sorted(Hostnames(json)) ELSE slave_list,
        public_slave_list |->
            IF askSlaves /\ ok2 /\ public_slave_list = None
            THEN sorted(Hostnames(SelectSeq(json, IsPublic))) ELSE public_slave_list,
        sent |->
            (IF askMasters THEN << Req("/exhibitor/exhibitor/v1/cluster/list") >>
             ELSE << >>)
            \o (IF askSlaves THEN << Req("/mesos/slaves") >> ELSE << >>)]

\* set_node_lists_if_unset: r1 and servers answer the exhibitor request, r2,
\* listed and pub the /mesos/slaves request
set_node_lists_if_unset(r1, servers, r2, listed, pub) ==
    LET askMasters == master_list = None
        ok1 == ~askMasters \/ (r1.kind = "response" /\ ~IsErrorStatus(r1.status))
        askSlaves == ok1 /\ ~(slave_list # None /\ public_slave_list # None)
        ok2 == ~askSlaves \/ (r2.kind = "response" /\ ~IsErrorStatus(r2.status))
        json == slaves_json(listed, pub)
        bad == IF ~ok1 THEN r1 ELSE r2
    IN [outcome |->
            IF ok1 /\ ok2 THEN Return("None")
            ELSE IF bad.kind # "response" THEN Raise(bad.kind)
            ELSE Raise("HTTPError"),
        master_list |->
            IF askMasters /\ ok1 THEN sorted(servers) ELSE master_list,
        slave_list |->
            IF askSlaves /\ ok2 /\ slave_list = None
            THEN sorted(Hostnames(SelectSeq(json, IsPrivate))) ELSE slave_list,
        public_slave_list |->
            IF askSlaves /\ ok2 /\ public_slave_list = None
            THEN sorted(Hostnames(SelectSeq(json, IsPublic))) ELSE public_slave_list,
        sent |->
            (IF askMasters THEN << Req("/exhibitor/exhibitor/v1/cluster/list") >>
             ELSE << >>)
            \o (IF askSlaves THEN << Req("/mesos/slaves") >> ELSE << >>)]

\* os.getenv(name, default) for a variable that is unset or has value v
EnvValues == {"unset", "true", "false"}
getenv(v, default) == IF v = "unset" THEN default ELSE v

\* wait_for_hosts_check with any() in place of all()
wait_for_hosts_check_Any(env) ==
    LET wait_for_hosts == getenv(env, "true") = "true"
        node_lists_set ==
            master_list # None \/ slave_list # None \/ public_slave_list # None
    IN IF wait_for_hosts /\ ~node_lists_set THEN Raise("Exception")
       ELSE Return("None")

\* the check of wait_for_dcos that all host lists were supplied
wait_for_hosts_check(env) ==
    LET wait_for_hosts == getenv(env, "true") = "true"
        master_list_set == master_list # None
        slave_list_set == slave_list # None
        public_slave_list_set == public_slave_list # None
        node_lists_set == master_list_set /\ slave_list_set /\ public_slave_list_set
    IN IF wait_for_hosts /\ ~node_lists_set THEN Raise("Exception")
       ELSE Return("None")

(***************************************************************************)
(* Construction: DcosApiSession.__init__ with the arguments of             *)
(* get_args_from_env or of the caller; no call has been made.              *)
(***************************************************************************)
Init ==
    /\ master_list \in SuppliedLists
    /\ slave_list \in SuppliedLists
    /\ public_slave_list \in SuppliedLists
    /\ auth_user \in {"None", "user"}
    /\ auth_token \in (IF auth_user = "None" THEN {NoToken} ELSE {NoToken} \cup Tokens)
    /\ session_auth = NoToken
    /\ op = "none"
    /\ pc = "none"
    /\ attempt = 0
    /\ elapsed = 0
    /\ result = "none"
    /\ started = << >>
    /\ returned = << >>
    /\ sent = << >>
    /\ last = NoLast
    /\ cookies = {}
    /\ arg = "none"
    /\ new = NoNew
    /\ ready = FALSE

(***************************************************************************)
(* A caller invokes a public method on the idle session.                   *)
(***************************************************************************)
Running == op # "none" /\ result = "none"

Invoke(method, first) ==
    /\ ~Running
    /\ op' = method
    /\ pc' = first
    /\ attempt' = 0
    /\ elapsed' = 0
    /\ result' = "none"
    /\ started' = << first >>
    /\ returned' = << >>
    /\ sent' = << >>
    /\ last' = NoLast
    /\ UNCHANGED session
    /\ UNCHANGED others

CallWaitForDcos == Invoke("wait_for_dcos", wait_for_dcos[1])
CallLoginDefaultUser == Invoke(Login, Login)
CallSetNodeListsIfUnset == Invoke(Nodes, Nodes)

(***************************************************************************)
(* The end of one attempt of method m with the given outcome: the retry    *)
(* decorator tries again, or the method returns to wait_for_dcos (which    *)
(* goes on to its next statement) or to the caller, or the exception       *)
(* leaves the call.                                                        *)
(***************************************************************************)
\* the attempt counter after one more attempt: exact where the count or the
\* time decides (stop_max_attempt_number, stop_max_delay), else up to MaxPoll
Bump(m) ==
    IF m \in {Srouter, Login} \/ attempt < MaxPoll THEN attempt + 1 ELSE attempt

\* the retry decorator sleeps and calls the method again
TryAgain(m, delay) ==
    /\ attempt' = Bump(m)
    /\ elapsed' = IF m = Login THEN delay + LoginWaitFixed ELSE elapsed
    /\ UNCHANGED << op, pc, result, started, returned >>

\* the method returns: wait_for_dcos goes on to its next statement, and
\* returns to the caller after the last one
ReturnFrom(m) ==
    /\ attempt' = 0
    /\ elapsed' = 0
    /\ returned' = Append(returned, m)
    /\ UNCHANGED op
    /\ IF op = "wait_for_dcos" /\ NextStatement(m) # "done"
       THEN /\ pc' = NextStatement(m)
            /\ started' = Append(started, NextStatement(m))
            /\ UNCHANGED result
       ELSE /\ pc' = IF op = "wait_for_dcos" THEN "done" ELSE pc
            /\ result' = "returned"
            /\ UNCHANGED started

\* the exception of the method swallowed: the call goes on
RaiseFrom_Swallowed(m, exc) == ReturnFrom(m)

\* the method raises: nothing in wait_for_dcos catches the exception
RaiseFrom(m, exc) ==
    /\ attempt' = 0
    /\ elapsed' = 0
    /\ result' = exc
    /\ UNCHANGED << op, pc, started, returned >>

Finish(m, outcome, delay, info) ==
    LET d == call(m, outcome, attempt + 1, delay)
    IN /\ last' = [info EXCEPT !.m = m, !.kind = outcome.kind,
                               !.value = outcome.value, !.exc = d.exc, !.act = d.act]
       /\ CASE d.act = "retry" -> TryAgain(m, delay)
            [] d.act = "return" -> ReturnFrom(m)
            [] d.act = "raise" -> RaiseFrom(m, d.exc)

At(m) == Running /\ pc = m

OkResponse(r) == r.kind = "response" /\ ~IsErrorStatus(r.status)

WaitForAdminrouterUp ==
    /\ At(AdminRouter)
    /\ \E r \in Responses :
          /\ Finish(AdminRouter, adminrouter_up(r), 0,
                    [NoLast EXCEPT !.rk = r.kind, !.status = r.status])
          /\ sent' = << Req("/") >>
    /\ UNCHANGED session
    /\ UNCHANGED others

LoginDefaultUser ==
    /\ At(Login)
    /\ \E r \in (IF LoginRequests THEN Responses ELSE {NoResponse}) :
       \E tok \in (IF r.kind = "response" THEN {NoToken} \cup Tokens ELSE {NoToken}) :
       \E lat \in (IF LoginRequests THEN 0..MaxLatency ELSE {0}) :
          LET l == login_default_user(r, tok)
          IN /\ Finish(Login, l.outcome, elapsed + lat * LoginStopMaxDelay,
                       [NoLast EXCEPT !.rk = r.kind, !.status = r.status, !.n = lat])
             /\ auth_token' = l.auth_token
             /\ session_auth' = l.session_auth
             /\ sent' = l.sent
    /\ UNCHANGED << master_list, slave_list, public_slave_list, auth_user >>
    /\ UNCHANGED others

WaitForHostsCheck ==
    /\ At(HostCheck)
    /\ \E env \in EnvValues :
          /\ Finish(HostCheck, wait_for_hosts_check(env), 0, [NoLast EXCEPT !.env = env])
    /\ sent' = << >>
    /\ UNCHANGED session
    /\ UNCHANGED others

SetNodeListsIfUnset ==
    /\ At(Nodes)
    /\ \E r1 \in (IF master_list = None THEN Responses ELSE {NoResponse}) :
       \E servers \in (IF OkResponse(r1) THEN {<< >>, Desc(MaxHost)} ELSE {<< >>}) :
       \E r2 \in (IF (master_list # None \/ OkResponse(r1))
                      /\ (slave_list = None \/ public_slave_list = None)
                  THEN Responses ELSE {NoResponse}) :
       \E listed \in (IF OkResponse(r2) THEN ListedSets ELSE {{}}) :
       \E pub \in PublicSets(listed) :
          LET n == set_node_lists_if_unset(r1, servers, r2, listed, pub)
          IN /\ Finish(Nodes, n.outcome, 0,
                       [NoLast EXCEPT !.rk = r1.kind, !.status = r1.status,
                                      !.rk2 = r2.kind, !.status2 = r2.status,
                                      !.servers = servers, !.slaves = listed,
                                      !.public = pub])
             /\ master_list' = n.master_list
             /\ slave_list' = n.slave_list
             /\ public_slave_list' = n.public_slave_list
             /\ sent' = n.sent
    /\ UNCHANGED << auth_user, auth_token, session_auth >>
    /\ UNCHANGED others

WaitForMarathonUp ==
    /\ At(Marathon)
    /\ \E r \in Responses :
          /\ Finish(Marathon, marathon_up(r), 0,
                    [NoLast EXCEPT !.rk = r.kind, !.status = r.status])
          /\ sent' = << Req("/marathon/v2/info") >>
    /\ UNCHANGED session
    /\ UNCHANGED others

WaitForZkQuorum ==
    /\ At(Zk)
    /\ \E r \in Responses :
       \E n \in (IF OkResponse(r) THEN 0..(MaxHost + 1) ELSE {0}) :
          /\ Finish(Zk, zk_quorum(r, n), 0,
                    [NoLast EXCEPT !.rk = r.kind, !.status = r.status, !.n = n])
          /\ sent' = << Req("/exhibitor/exhibitor/v1/cluster/status") >>
    /\ UNCHANGED session
    /\ UNCHANGED others

WaitForSlavesToJoin ==
    /\ At(Slaves)
    /\ \E r \in Responses :
       \E n \in (IF r.status = 200 THEN 0..(2 * MaxHost) ELSE {0}) :
          /\ Finish(Slaves, slaves_to_join(r, n), 0,
                    [NoLast EXCEPT !.rk = r.kind, !.status = r.status, !.n = n])
          /\ sent' = << Req("/mesos/master/slaves") >>
    /\ UNCHANGED session
    /\ UNCHANGED others

WaitForSrouterSlavesEndpoints ==
    /\ At(Srouter)
    /\ \E r \in Responses :
       \E listed \in (IF r.status = 200 THEN ListedSets ELSE {{}}) :
       \E k \in 0..Len(slaves_ids(listed)) :
       \E p \in (IF k = 0 THEN {ProbeOk} ELSE Probes \ {ProbeOk}) :
          /\ Finish(Srouter, srouter_slaves_endpoints(r, listed, k, p), 0,
                    [NoLast EXCEPT !.rk = r.kind, !.status = r.status, !.slaves = listed, !.n = k,
                                   !.rk2 = IF k = 0 THEN "none" ELSE p.kind,
                                   !.status2 = IF k = 0 THEN 0 ELSE p.status])
          /\ sent' = srouter_requests(r, listed, k)
    /\ UNCHANGED session
    /\ UNCHANGED others

WaitForMetronome ==
    /\ At(Metronome)
    /\ \E r \in Responses :
          /\ Finish(Metronome, metronome_up(r), 0,
                    [NoLast EXCEPT !.rk = r.kind, !.status = r.status])
          /\ sent' = << Req("/service/metronome/v1/jobs") >>
    /\ UNCHANGED session
    /\ UNCHANGED others

WaitForAllHealthyServices ==
    /\ At(Health)
    /\ \E r \in Responses :
       \E n \in (IF OkResponse(r) THEN 0..MaxHost ELSE {0}) :
          /\ Finish(Health, all_healthy_services(r, n), 0,
                    [NoLast EXCEPT !.rk = r.kind, !.status = r.status, !.n = n])
          /\ sent' = << Req("/system/health/v1/units") >>
    /\ UNCHANGED session
    /\ UNCHANGED others

Next ==
    \/ CallWaitForDcos
    \/ CallLoginDefaultUser
    \/ CallSetNodeListsIfUnset
    \/ WaitForAdminrouterUp
    \/ LoginDefaultUser
    \/ WaitForHostsCheck
    \/ SetNodeListsIfUnset
    \/ WaitForMarathonUp
    \/ WaitForZkQuorum
    \/ WaitForSlavesToJoin
    \/ WaitForSrouterSlavesEndpoints
    \/ WaitForMetronome
    \/ WaitForAllHealthyServices

Spec == Init /\ [][Next]_vars

(***************************************************************************)
(* copy and get_user_session.  A DcosUser is an object: new.auth_user      *)
(* names which one the new session holds: "None", "copy" (the deep copy of *)
(* self.auth_user), "self" (the very object self.auth_user refers to) or   *)
(* "other" (another DcosUser object of the caller).  user_token is the     *)
(* token of the "copy" or "other" object; the token of "self" is           *)
(* auth_token.                                                             *)
(***************************************************************************)
\* copy(): deepcopy(self), then new.session.cookies.clear()
copy ==
    [made |-> TRUE,
     master_list |-> master_list,
     slave_list |-> slave_list,
     public_slave_list |-> public_slave_list,
     auth_user |-> IF auth_user = "None" THEN "None" ELSE "copy",
     user_token |-> auth_token,
     session_auth |-> session_auth,
     cookies |-> {}]

\* the users a caller may pass to get_user_session, each with its token
Users ==
    [ref : {"None"}, token : {NoToken}]
    \cup [ref : {"other"}, token : {NoToken} \cup Tokens]
    \cup (IF auth_user = "None" THEN {} ELSE {[ref |-> "self", token |-> auth_token]})

\* get_user_session working on self in place of a copy
get_user_session_InPlace(user) ==
    [new |-> [copy EXCEPT !.session_auth = NoToken, !.auth_user = user.ref,
                          !.user_token = user.token],
     auth_user |-> IF user.ref = "None" THEN "None" ELSE auth_user,
     session_auth |-> NoToken,
     login |-> user.ref # "None"]

\* get_user_session up to the call of new.login_default_user(): the new
\* session, auth_user and session.auth of self, and whether login is called
get_user_session(user) ==
    [new |-> [copy EXCEPT !.session_auth = NoToken,
                          !.auth_user = user.ref,
                          !.user_token = IF user.ref = "other" THEN user.token
                                         ELSE NoToken],
     auth_user |-> auth_user,
     session_auth |-> session_auth,
     login |-> user.ref # "None"]

\* the token of the user object new.auth_user refers to
NewUserToken == IF new.auth_user = "self" THEN auth_token ELSE new.user_token

\* login_default_user on the new session: as login_default_user, with
\* new.auth_user and new.session.auth for self.auth_user and self.session.auth
new_login_default_user(r, tok) ==
    IF new.auth_user = "None"
    THEN [outcome |-> Return("None"), token |-> NewUserToken,
          session_auth |-> new.session_auth, sent |-> << >>]
    ELSE IF NewUserToken # NoToken
    THEN [outcome |-> Return("None"), token |-> NewUserToken,
          session_auth |-> NewUserToken, sent |-> << >>]
    ELSE LET out == IF r.kind # "response" THEN Raise(r.kind)
                    ELSE IF IsErrorStatus(r.status) THEN Raise("HTTPError")
                    ELSE IF tok = NoToken THEN Raise("KeyError")
                    ELSE Return("None")
         IN [outcome |-> out,
             token |-> IF out.kind = "return" THEN tok ELSE NewUserToken,
             session_auth |-> IF out.kind = "return" THEN tok ELSE new.session_auth,
             sent |-> << Req("/acs/api/v1/auth/login") >>]

NewLoginRequests == new.auth_user # "None" /\ NewUserToken = NoToken

\* a session that has been in use: the states Spec leaves a session in
InitUsed ==
    /\ master_list \in {None, Asc(MaxHost)}
    /\ slave_list \in {None, Asc(MaxHost)}
    /\ public_slave_list = (IF slave_list = None THEN None ELSE << >>)
    /\ auth_user \in {"None", "user"}
    /\ auth_token \in (IF auth_user = "None" THEN {NoToken} ELSE {NoToken} \cup Tokens)
    /\ session_auth \in {NoToken, auth_token}
    /\ cookies \in SUBSET {"dcos-acs-auth-cookie"}
    /\ op = "none"
    /\ pc = "none"
    /\ attempt = 0
    /\ elapsed = 0
    /\ result = "none"
    /\ started = << >>
    /\ returned = << >>
    /\ sent = << >>
    /\ last = NoLast
    /\ arg = "none"
    /\ new = NoNew
    /\ ready = FALSE

\* the caller calls copy(): one step, it sends nothing
CallCopy ==
    /\ ~Running
    /\ op' = "copy"
    /\ pc' = "done"
    /\ arg' = "none"
    /\ new' = copy
    /\ result' = "returned"
    /\ attempt' = 0
    /\ elapsed' = 0
    /\ started' = << >>
    /\ returned' = << >>
    /\ sent' = << >>
    /\ last' = NoLast
    /\ UNCHANGED session
    /\ UNCHANGED << cookies, ready >>

\* the caller calls get_user_session(user); with a user the call goes on to
\* the attempts of new.login_default_user()
CallGetUserSession ==
    /\ ~Running
    /\ \E user \in Users :
          LET g == get_user_session(user)
          IN /\ op' = "get_user_session"
             /\ arg' = user.ref
             /\ new' = g.new
             /\ auth_user' = g.auth_user
             /\ session_auth' = g.session_auth
             /\ pc' = IF g.login THEN Login ELSE "done"
             /\ result' = IF g.login THEN "none" ELSE "returned"
             /\ started' = IF g.login THEN << Login >> ELSE << >>
    /\ attempt' = 0
    /\ elapsed' = 0
    /\ returned' = << >>
    /\ sent' = << >>
    /\ last' = NoLast
    /\ UNCHANGED << master_list, slave_list, public_slave_list, auth_token, cookies,
                    ready >>

\* one attempt of new.login_default_user() inside get_user_session
NewLoginDefaultUser ==
    /\ op = "get_user_session"
    /\ At(Login)
    /\ \E r \in (IF NewLoginRequests THEN Responses ELSE {NoResponse}) :
       \E tok \in (IF r.kind = "response" THEN {NoToken} \cup Tokens ELSE {NoToken}) :
       \E lat \in (IF NewLoginRequests THEN 0..MaxLatency ELSE {0}) :
          LET l == new_login_default_user(r, tok)
          IN /\ Finish(Login, l.outcome, elapsed + lat * LoginStopMaxDelay,
                       [NoLast EXCEPT !.rk = r.kind, !.status = r.status, !.n = lat])
             /\ auth_token' = IF new.auth_user = "self" THEN l.token ELSE auth_token
             /\ new' = [new EXCEPT !.session_auth = l.session_auth,
                                   !.user_token = IF new.auth_user = "self"
                                                  THEN new.user_token ELSE l.token]
             /\ sent' = l.sent
    /\ UNCHANGED << master_list, slave_list, public_slave_list, auth_user,
                    session_auth, cookies, arg, ready >>

NextSessions ==
    \/ CallCopy
    \/ CallGetUserSession
    \/ NewLoginDefaultUser

SpecSessions == InitUsed /\ [][NextSessions]_vars

(***************************************************************************)
(* metronome_one_off.  The calls of Jobs (create, run, destroy) are steps; *)
(* what a call does (return, with the status run reports, or raise) is the *)
(* input of its step.                                                      *)
(***************************************************************************)
JobsCreate == "_jobs.create"
JobsRun == "_jobs.run"
JobsDestroy == "_jobs.destroy"

\* what a call of Jobs may do; status is the first item of what run returns
JobsOutcomes ==
    [kind : {"return"}, status : {"True", "False"}, exc : {"none"}]
    \cup [kind : {"raise"}, status : {"none"}, exc : {"HTTPError", "Timeout"}]

\* metronome_one_off destroying the job before it is run
metronome_one_off_DestroyFirst(stmt, o, ignore_failures) ==
    IF o.kind = "raise" THEN [act |-> "raise", exc |-> o.exc, next |-> "none"]
    ELSE IF stmt = JobsCreate THEN [act |-> "call", exc |-> "none", next |-> JobsDestroy]
    ELSE IF stmt = JobsDestroy THEN [act |-> "call", exc |-> "none", next |-> JobsRun]
    ELSE IF o.status = "False" /\ ignore_failures = "False"
    THEN [act |-> "raise", exc |-> "Exception", next |-> "none"]
    ELSE [act |-> "return", exc |-> "none", next |-> "done"]

\* metronome_one_off raising on a failed run whatever ignore_failures is
metronome_one_off_NeverIgnore(stmt, o, ignore_failures) ==
    IF o.kind = "raise" THEN [act |-> "raise", exc |-> o.exc, next |-> "none"]
    ELSE IF stmt = JobsCreate THEN [act |-> "call", exc |-> "none", next |-> JobsRun]
    ELSE IF stmt = JobsRun
    THEN IF o.status = "False"
         THEN [act |-> "raise", exc |-> "Exception", next |-> "none"]
         ELSE [act |-> "call", exc |-> "none", next |-> JobsDestroy]
    ELSE [act |-> "return", exc |-> "none", next |-> "done"]

\* metronome_one_off after its call stmt of Jobs did o: the exception that
\* leaves the method, the next call of Jobs, or the return
metronome_one_off(stmt, o, ignore_failures) ==
    IF o.kind = "raise" THEN [act |-> "raise", exc |-> o.exc, next |-> "none"]
    ELSE IF stmt = JobsCreate THEN [act |-> "call", exc |-> "none", next |-> JobsRun]
    ELSE IF stmt = JobsRun
    THEN IF o.status = "False" /\ ignore_failures = "False"
         THEN [act |-> "raise", exc |-> "Exception", next |-> "none"]
         ELSE [act |-> "call", exc |-> "none", next |-> JobsDestroy]
    ELSE [act |-> "return", exc |-> "none", next |-> "done"]

\* the caller calls metronome_one_off: _jobs = self.jobs copies the session,
\* and a job definition without 'id' ends the call with KeyError
CallMetronomeOneOff ==
    /\ ~Running
    /\ \E ignore_failures \in {"True", "False"} :
       \E has_id \in BOOLEAN :
          /\ arg' = ignore_failures
          /\ pc' = IF has_id THEN JobsCreate ELSE "job_definition['id']"
          /\ result' = IF has_id THEN "none" ELSE "KeyError"
          /\ started' = IF has_id THEN << JobsCreate >> ELSE << >>
    /\ op' = "metronome_one_off"
    /\ new' = copy
    /\ attempt' = 0
    /\ elapsed' = 0
    /\ returned' = << >>
    /\ sent' = << >>
    /\ last' = NoLast
    /\ UNCHANGED session
    /\ UNCHANGED << cookies, ready >>

\* one call of Jobs inside metronome_one_off, and the statements up to the
\* next call
JobsCall ==
    /\ op = "metronome_one_off"
    /\ Running
    /\ \E o \in JobsOutcomes :
          LET d == metronome_one_off(pc, o, arg)
          IN /\ last' = [NoLast EXCEPT !.m = pc, !.kind = o.kind, !.value = o.status,
                                       !.exc = d.exc, !.act = d.act]
             /\ returned' = IF o.kind = "return" THEN Append(returned, pc) ELSE returned
             /\ started' = IF d.act = "call" THEN Append(started, d.next) ELSE started
             /\ pc' = IF d.act = "raise" THEN pc ELSE d.next
             /\ result' = CASE d.act = "raise" -> d.exc
                             [] d.act = "return" -> "returned"
                             [] d.act = "call" -> "none"
    /\ sent' = << >>
    /\ UNCHANGED << attempt, elapsed, op, arg, new, cookies, ready >>
    /\ UNCHANGED session

NextJobs ==
    \/ CallMetronomeOneOff
    \/ JobsCall

SpecJobs == InitUsed /\ [][NextJobs]_vars

(***************************************************************************)
(* The properties masters, slaves, public_slaves and all_slaves read on a  *)
(* session constructed with lists in any order (or None).                  *)
(***************************************************************************)
\* the lists a caller may construct a session with: hosts in any order
GivenLists == UNION {[1..n -> 1..(MaxHost + 1)] : n \in 0..(MaxHost + 1)}

InitGiven ==
    /\ master_list \in GivenLists \cup {None}
    /\ slave_list \in GivenLists \cup {None}
    /\ public_slave_list \in GivenLists \cup {None}
    /\ auth_user = "None"
    /\ auth_token = NoToken
    /\ session_auth = NoToken
    /\ cookies = {}
    /\ op = "none"
    /\ pc = "none"
    /\ attempt = 0
    /\ elapsed = 0
    /\ result = "none"
    /\ started = << >>
    /\ returned = << >>
    /\ sent = << >>
    /\ last = NoLast
    /\ arg = "none"
    /\ new = NoNew
    /\ ready = FALSE

\* reading property name, which needs the lists in needs and returns value;
\* sorted(None) raises TypeError
ReadProperty(name, needs, value) ==
    LET ok == \A l \in needs : l # None
    IN /\ op' = name
       /\ pc' = "done"
       /\ result' = IF ok THEN "returned" ELSE "TypeError"
       /\ last' = IF ok
                  THEN [NoLast EXCEPT !.m = name, !.kind = "return", !.value = value,
                                      !.act = "return"]
                  ELSE [NoLast EXCEPT !.m = name, !.kind = "raise", !.exc = "TypeError",
                                      !.act = "raise"]
       /\ UNCHANGED << attempt, elapsed, started, returned, sent >>
       /\ UNCHANGED session
       /\ UNCHANGED others

ReadMasters == ReadProperty("masters", {master_list}, masters)
ReadSlaves == ReadProperty("slaves", {slave_list}, slaves)
ReadPublicSlaves == ReadProperty("public_slaves", {public_slave_list}, public_slaves)
ReadAllSlaves == ReadProperty("all_slaves", {slave_list, public_slave_list}, all_slaves)

NextProperties ==
    \/ ReadMasters
    \/ ReadSlaves
    \/ ReadPublicSlaves
    \/ ReadAllSlaves

SpecProperties == InitGiven /\ [][NextProperties]_vars

(***************************************************************************)
(* wait_for_dcos against a cluster that becomes ready: from then on every  *)
(* probe gets its ready answer.  The thread that runs wait_for_dcos keeps  *)
(* running (a sleep of the retry decorator ends), so an attempt that can   *)
(* be made is made.                                                        *)
(***************************************************************************)
\* the answer l that an attempt of method m got is the ready answer
ReadyAnswer(m, l) ==
    CASE m = AdminRouter -> l.rk = "response"
      [] m = Login -> l.rk = "none" \/ (l.rk = "response" /\ l.status = 200 /\ l.act = "return")
      [] m = Marathon -> l.rk = "response" /\ l.status = 200
      [] m = Zk -> l.rk = "response" /\ l.status = 200 /\ l.n = Len(masters)
      [] m = Slaves -> l.rk = "response" /\ l.status = 200 /\ l.n >= Len(all_slaves)
      [] m = Srouter -> l.rk = "response" /\ l.status = 200 /\ l.n = 0
      [] m = Metronome -> l.rk = "response" /\ l.status = 200
      [] m = Health -> l.rk = "response" /\ l.status = 200 /\ l.n = 0
      [] OTHER -> TRUE

\* a session constructed with all three node lists
InitSupplied ==
    /\ Init
    /\ master_list = Asc(MaxHost)
    /\ slave_list \in {<< >>, Asc(MaxHost)}
    /\ public_slave_list = << >>

ClusterBecomesReady ==
    /\ ~ready
    /\ ready' = TRUE
    /\ UNCHANGED << session, op, pc, attempt, elapsed, result, started, returned,
                    sent, last, cookies, arg, new >>

\* one step of wait_for_dcos
Statement ==
    \/ WaitForAdminrouterUp
    \/ LoginDefaultUser
    \/ WaitForHostsCheck
    \/ SetNodeListsIfUnset
    \/ WaitForMarathonUp
    \/ WaitForZkQuorum
    \/ WaitForSlavesToJoin
    \/ WaitForSrouterSlavesEndpoints
    \/ WaitForMetronome
    \/ WaitForAllHealthyServices

\* a step of wait_for_dcos whose probe the cluster answers
Answered == Statement /\ (ready => ReadyAnswer(pc, last'))

NextReady ==
    \/ CallWaitForDcos
    \/ ClusterBecomesReady
    \/ Answered

SpecReady == InitSupplied /\ [][NextReady]_vars /\ WF_vars(Answered)

(***************************************************************************)
(* Properties.                                                             *)
(***************************************************************************)
SomeListNone == master_list = None \/ slave_list = None \/ public_slave_list = None
AllListsSet == ~SomeListNone
IsPrefix(s, t) == Len(s) <= Len(t) /\ s = SubSeq(t, 1, Len(s))
IsDiscovery(q) == q.path \in {"/exhibitor/exhibitor/v1/cluster/list", "/mesos/slaves"}
WaitingDemanded(env) == env \in {"unset", "true"}

\* C1: in every execution of wait_for_dcos the sub-checks are started in the
\* one order gateway, login, topology, scheduler, quorum, workers joined,
\* endpoint warm-up, batch-job service, aggregate health, and a sub-check is
\* started only when every sub-check before it has returned.
C1_Order ==
    << "_wait_for_adminrouter_up", "login_default_user", "set_node_lists_if_unset",
       "_wait_for_marathon_up", "_wait_for_zk_quorum", "_wait_for_slaves_to_join",
       "_wait_for_srouter_slaves_endpoints", "_wait_for_metronome",
       "_wait_for_all_healthy_services" >>

C1_SubChecks(seq) == SelectSeq(seq, LAMBDA m : m \in Range(C1_Order))

C1_FixedOrder ==
    op = "wait_for_dcos" =>
        LET s == C1_SubChecks(started)
            r == C1_SubChecks(returned)
        IN /\ IsPrefix(s, C1_Order)
           /\ IsPrefix(r, s)
           /\ Len(s) <= Len(r) + 1
           /\ Running /\ pc \in Range(C1_Order) => s[Len(s)] = pc /\ Len(s) = Len(r) + 1
           /\ result = "returned" => r = C1_Order

C1_Witness ==
    /\ op = "wait_for_dcos"
    /\ result = "returned"
    /\ C1_SubChecks(started) = C1_Order

C4_NoDiscovery ==
    [][ AllListsSet
        => /\ \A i \in 1..Len(sent') : ~IsDiscovery(sent'[i])
           /\ << master_list', slave_list', public_slave_list' >>
                = << master_list, slave_list, public_slave_list >> ]_vars

C4_Witness ==
    /\ op = "wait_for_dcos"
    /\ last.m = Nodes
    /\ last.act = "return"
    /\ sent = << >>
    /\ AllListsSet

\* C5: an attempt of login_default_user on a session whose user has a token
\* sends no request, returns, leaves the token as it is and installs the
\* session auth of that token; once that auth is installed a further call
\* changes nothing of the session.
C5_LoginIdempotent ==
    [][ (At(Login) /\ auth_user # "None" /\ auth_token # NoToken)
        => /\ sent' = << >>
           /\ last'.act = "return"
           /\ auth_token' = auth_token
           /\ session_auth' = auth_token
           /\ session_auth = auth_token => session' = session ]_vars

C5_Witness ==
    /\ op = Login
    /\ result = "returned"
    /\ sent = << >>
    /\ auth_token # NoToken
    /\ session_auth = auth_token

\* the transient status codes of the specification: 404, 502, 503, 504, any 5xx
Transient(status) == status \in {404, 502, 503, 504} \/ (status >= 500 /\ status < 600)
Non2xx(status) == status < 200 \/ status >= 300
StatusProbing ==
    { "_wait_for_marathon_up", "_wait_for_zk_quorum", "_wait_for_slaves_to_join",
      "_wait_for_srouter_slaves_endpoints", "_wait_for_metronome",
      "_wait_for_all_healthy_services" }

\* C6 as stated: in every status-probing sub-check a response with a transient
\* status makes the sub-check retry.
C6_TransientRetried ==
    /\ (last.m \in StatusProbing /\ last.rk = "response" /\ Transient(last.status))
       => last.act = "retry"
    /\ (last.m = Srouter /\ last.rk2 = "response" /\ Transient(last.status2))
       => last.act = "retry"

\* C6 as amended: the scheduler, quorum, workers-joined and batch-job checks
\* retry on every transient status; the warm-up check retries on 502 from the
\* listing and on 404, 502, 503 from an agent endpoint, until its attempt cap
\* is used up; every other transient status in the warm-up check, and every
\* transient status in the health check, is fatal.
C6_OwnTransientRetried ==
    /\ (last.m \in {Marathon, Zk, Slaves, Metronome} /\ last.rk = "response"
        /\ Transient(last.status))
       => last.act = "retry"
    /\ (last.m = Srouter
        /\ \/ last.rk = "response" /\ last.status = 502
           \/ last.rk2 = "response" /\ last.status2 \in {404, 502, 503})
       => (last.act = "retry" \/ (last.act = "raise" /\ last.exc = "RetryError"))
    /\ (last.m = Srouter
        /\ \/ last.rk = "response" /\ Transient(last.status) /\ last.status # 502
           \/ last.rk2 = "response" /\ Transient(last.status2)
              /\ last.status2 \notin {404, 502, 503})
       => (last.act = "raise" /\ last.exc = "AssertionError")
    /\ (last.m = Health /\ last.rk = "response" /\ Transient(last.status))
       => (last.act = "raise" /\ last.exc = "HTTPError")

C6_Witness ==
    /\ op = "wait_for_dcos"
    /\ last.m = Metronome
    /\ last.status = 503
    /\ last.act = "retry"
    /\ At(Metronome)

\* C7 as stated: in every status-probing sub-check a response with a non-2xx
\* status outside the transient set, or an exception of the request, makes
\* the sub-check raise.
C7_OthersFatal ==
    (last.m \in StatusProbing
     /\ \/ last.rk = "response" /\ Non2xx(last.status) /\ ~Transient(last.status)
        \/ last.rk \in {"ConnectionError", "Timeout"}
        \/ last.rk2 = "response" /\ Non2xx(last.status2) /\ ~Transient(last.status2)
        \/ last.rk2 \in {"ConnectionError", "Timeout"})
    => last.act = "raise"

\* C7 as amended: a non-2xx status outside the transient set is fatal in the
\* warm-up, batch-job and health checks, and an exception of the request is
\* fatal in the scheduler, workers-joined, warm-up, batch-job and health
\* checks; the scheduler, quorum and workers-joined checks retry on such a
\* status, and the quorum check retries on an exception as well.
C7_FatalWhereNotRetried ==
    /\ (last.m \in {Srouter, Metronome, Health}
        /\ \/ last.rk = "response" /\ Non2xx(last.status) /\ ~Transient(last.status)
           \/ last.rk2 = "response" /\ Non2xx(last.status2) /\ ~Transient(last.status2))
       => (last.act = "raise" /\ ~Running)
    /\ (last.m \in {Marathon, Slaves, Srouter, Metronome, Health}
        /\ (last.rk \in {"ConnectionError", "Timeout"}
            \/ last.rk2 \in {"ConnectionError", "Timeout"}))
       => (last.act = "raise" /\ ~Running /\ result \in {"ConnectionError", "Timeout"})
    /\ (last.m \in {Marathon, Zk, Slaves} /\ last.rk = "response"
        /\ Non2xx(last.status) /\ ~Transient(last.status))
       => (last.act = "retry" /\ Running)
    /\ (last.m = Zk /\ last.rk \in {"ConnectionError", "Timeout"})
       => (last.act = "retry" /\ Running)

C7_Witness ==
    /\ op = "wait_for_dcos"
    /\ last.m = Metronome
    /\ last.status = 401
    /\ result = "AssertionError"

\* C8: the warm-up check makes at most 60 attempts: an attempt that yields
\* False is followed by another one while fewer than 60 have been made, the
\* 60th such attempt ends wait_for_dcos with RetryError before the batch-job
\* check is started, and RetryError is raised by no other attempt.
C8_SrouterCap ==
    [][ At(Srouter)
        => /\ attempt < 60
           /\ last'.value = "False"
              => IF attempt + 1 < 60
                 THEN last'.act = "retry" /\ At(Srouter)' /\ attempt' = attempt + 1
                 ELSE /\ last'.act = "raise"
                      /\ result' = "RetryError"
                      /\ ~Running'
                      /\ "_wait_for_metronome" \notin Range(started')
           /\ result' = "RetryError" => attempt + 1 = 60 ]_vars

C8_Witness ==
    /\ op = "wait_for_dcos"
    /\ pc = Srouter
    /\ result = "RetryError"

\* C9: in the gateway, scheduler, quorum, workers-joined, batch-job and health
\* checks an attempt that finds the cluster not ready is followed by another
\* attempt, however many were made before; RetryError comes from the warm-up
\* check alone, whose attempts stay below 60, and login stays within its
\* 120 s (plus one wait of 5 s).
C9_Uncapped ==
    { "_wait_for_adminrouter_up", "_wait_for_marathon_up", "_wait_for_zk_quorum",
      "_wait_for_slaves_to_join", "_wait_for_metronome",
      "_wait_for_all_healthy_services" }

C9_NotReady(m, l) == l.value = "False" \/ (m = Zk /\ l.kind = "raise")

C9_RetryIndefinitely ==
    [][ /\ \A m \in C9_Uncapped :
              (At(m) /\ C9_NotReady(m, last'))
              => (last'.act = "retry" /\ At(m)' /\ result' = "none")
        /\ result' = "RetryError" => pc' = Srouter
        /\ At(Srouter)' => attempt' < 60
        /\ At(Login)' => elapsed' < 120000 + 5000 ]_vars

C9_Witness ==
    /\ At(Marathon)
    /\ attempt >= MaxPoll
    /\ last.act = "retry"

\* C10: when a statement of wait_for_dcos raises, the call is over with that
\* exception as its result: the statement that raised is the last one
\* started and has not returned.
C10_Abort ==
    (op = "wait_for_dcos" /\ last.act = "raise")
    => /\ ~Running
       /\ result = last.exc
       /\ result \notin {"none", "returned"}
       /\ pc = last.m
       /\ started[Len(started)] = last.m
       /\ last.m \notin Range(returned)

C10_Witness ==
    /\ op = "wait_for_dcos"
    /\ pc = Zk \/ pc = Nodes
    /\ result \in {"HTTPError", "AssertionError", "ConnectionError"}
    /\ "_wait_for_slaves_to_join" \notin Range(started)

\* C11: a node list that is set is never changed by any step (of
\* set_node_lists_if_unset, login_default_user or a sub-check of
\* wait_for_dcos), whatever the cluster reports; a list changes only from None,
\* in a step of set_node_lists_if_unset; and when set_node_lists_if_unset
\* returns all three lists are set, so from then on they stay as they are.
NodeLists == << master_list, slave_list, public_slave_list >>

C11_ListsFixed ==
    [][ /\ \A i \in 1..3 :
              /\ NodeLists[i] # None => NodeLists'[i] = NodeLists[i]
              /\ NodeLists'[i] # NodeLists[i]
                 => (NodeLists[i] = None /\ At(Nodes) /\ last'.m = Nodes)
        /\ (last'.m = Nodes /\ last'.act = "return") => AllListsSet'
        /\ ("set_node_lists_if_unset" \in Range(returned)) => NodeLists' = NodeLists
      ]_vars

C11_Witness ==
    /\ op = "wait_for_dcos"
    /\ "set_node_lists_if_unset" \in Range(returned)
    /\ last.m = Slaves
    /\ last.status = 200
    /\ last.n > Len(slave_list) + Len(public_slave_list)
    /\ AllListsSet

\* C12: the token of the user changes at most once: a token that is set is
\* changed by no step; the token changes only from None, in an attempt of
\* login_default_user whose request got a response without an error status
\* and which returned; an attempt whose response has an error status leaves
\* the token None.
C12_TokenOnce ==
    [][ /\ auth_token # NoToken => auth_token' = auth_token
        /\ auth_token' # auth_token
           => /\ auth_token = NoToken
              /\ At(Login)
              /\ sent' = << Req("/acs/api/v1/auth/login") >>
              /\ last'.rk = "response"
              /\ ~IsErrorStatus(last'.status)
              /\ last'.act = "return"
        /\ (At(Login) /\ last'.rk = "response" /\ IsErrorStatus(last'.status))
           => (auth_token = NoToken /\ auth_token' = NoToken /\ last'.act # "return")
      ]_vars

C12_Witness ==
    /\ op = "wait_for_dcos"
    /\ last.m = Login
    /\ last.rk = "response"
    /\ last.status = 200
    /\ last.act = "return"
    /\ sent = << Req("/acs/api/v1/auth/login") >>
    /\ auth_token \in Tokens
    /\ pc = HostCheck

\* C13 as stated: no step of copy or of get_user_session, for any user,
\* changes auth_user, the token of auth_user, the session auth or the node
\* lists of the original session; with user None the new session has no
\* auth_user and no session auth, and the call sends no request.
C13_OriginalUnchanged ==
    [][ op' \in {"copy", "get_user_session"}
        => /\ session' = session
           /\ (op' = "get_user_session" /\ arg' = "None")
              => (new'.auth_user = "None" /\ new'.session_auth = NoToken
                  /\ sent' = << >>) ]_vars

\* C13 as amended: no step of copy or of get_user_session changes auth_user,
\* the session auth, the node lists or the cookies of the original session,
\* and the new session holds the node lists of the original; the token of
\* auth_user changes only when the user passed is the very object auth_user
\* refers to and has no token, by the login of the new session that returns;
\* with user None the call returns at once, the new session has no auth_user
\* and no session auth, and no request is sent.
C13_OriginalKept ==
    [][ op' \in {"copy", "get_user_session"}
        => /\ auth_user' = auth_user
           /\ session_auth' = session_auth
           /\ NodeLists' = NodeLists
           /\ cookies' = cookies
           /\ new'.made
           /\ << new'.master_list, new'.slave_list, new'.public_slave_list >> = NodeLists
           /\ auth_token' # auth_token
              => /\ auth_token = NoToken
                 /\ arg = "self"
                 /\ At(Login)
                 /\ last'.act = "return"
                 /\ new'.session_auth = auth_token'
           /\ (arg' # "self") => auth_token' = auth_token
           /\ (op' = "get_user_session" /\ arg' = "None")
              => /\ new'.auth_user = "None"
                 /\ new'.session_auth = NoToken
                 /\ sent' = << >>
                 /\ result' = "returned"
           /\ (op' = "copy" /\ op # "copy")
              => (new'.session_auth = session_auth /\ new'.user_token = auth_token
                  /\ new'.cookies = {}) ]_vars

C13_Witness ==
    /\ op = "get_user_session"
    /\ result = "returned"
    /\ arg = "other"
    /\ new.auth_user = "other"
    /\ new.session_auth \in Tokens
    /\ last.status = 200
    /\ auth_user = "user"
    /\ auth_token = NoToken
    /\ session_auth = NoToken
    /\ cookies # {}
    /\ master_list # None

\* C14: metronome_one_off calls create, then run, then destroy, each after
\* the one before has returned; when run reports failure and ignore_failures
\* is True the method raises nothing and goes on to call destroy, and when
\* run reports failure and ignore_failures is False the method ends with an
\* exception and destroy is never called.
C14_Order == << "_jobs.create", "_jobs.run", "_jobs.destroy" >>

C14_CreateRunDestroy ==
    [][ op' = "metronome_one_off"
        => /\ IsPrefix(started', C14_Order)
           /\ IsPrefix(returned', started')
           /\ Len(started') <= Len(returned') + 1
           /\ result' = "returned" => returned' = C14_Order
           /\ (op = "metronome_one_off" /\ Running /\ pc = "_jobs.run"
               /\ last'.kind = "return" /\ last'.value = "False")
              => IF arg = "True"
                 THEN /\ result' = "none"
                      /\ pc' = "_jobs.destroy"
                      /\ started' = C14_Order
                 ELSE /\ result' = "Exception"
                      /\ "_jobs.destroy" \notin Range(started') ]_vars

C14_Witness ==
    /\ op = "metronome_one_off"
    /\ arg = "True"
    /\ last.m = "_jobs.run"
    /\ last.value = "False"
    /\ pc = "_jobs.destroy"
    /\ result = "none"
    /\ started = C14_Order

\* C15: what masters, slaves and public_slaves return is ascending and holds
\* every host as often as the stored list does, and what all_slaves returns
\* is ascending and holds every host as often as slave_list and
\* public_slave_list together do, in whatever order the lists are stored.
C15_Count(x, s) == Cardinality({i \in 1..Len(s) : s[i] = x})
C15_Ascending(s) == \A i \in 1..Len(s) : \A j \in i..Len(s) : s[i] <= s[j]
C15_SortedPermutation(s, t) ==
    /\ C15_Ascending(s)
    /\ Len(s) = Len(t)
    /\ \A x \in Range(s) \cup Range(t) : C15_Count(x, s) = C15_Count(x, t)

C15_SortedViews ==
    /\ (op = "masters" /\ result = "returned")
       => C15_SortedPermutation(last.value, master_list)
    /\ (op = "slaves" /\ result = "returned")
       => C15_SortedPermutation(last.value, slave_list)
    /\ (op = "public_slaves" /\ result = "returned")
       => C15_SortedPermutation(last.value, public_slave_list)
    /\ (op = "all_slaves" /\ result = "returned")
       => C15_SortedPermutation(last.value, slave_list \o public_slave_list)

C15_Witness ==
    /\ op = "all_slaves"
    /\ result = "returned"
    /\ slave_list = << 2, 1 >>
    /\ public_slave_list = << 2, 1 >>
    /\ last.value = << 1, 1, 2, 2 >>

\* C16: on a session constructed with all node lists, once the cluster has
\* become ready while wait_for_dcos is running (login within its time bound,
\* the warm-up check within its 60 attempts, no statement having raised),
\* wait_for_dcos eventually returns.
C16_EventuallyReturns ==
    (ready /\ op = "wait_for_dcos" /\ result = "none")
    ~> (op = "wait_for_dcos" /\ result = "returned")

C16_Witness ==
    /\ ready
    /\ op = "wait_for_dcos"
    /\ result = "returned"
    /\ last.m = Health
    /\ Len(all_slaves) > 0
    /\ auth_token # NoToken

\* C17: an attempt of the workers-joined check that gets a response returns
\* if and only if the status is 200 and the listing holds at least as many
\* agents as all_slaves has hosts, and retries otherwise; the warm-up check is
\* started only by such an attempt.
C17_Enough(l) == l.rk = "response" /\ l.status = 200 /\ l.n >= Len(all_slaves)

C17_WorkersJoined ==
    [][ /\ (At(Slaves) /\ last'.rk = "response")
           => /\ last'.act = "return" <=> C17_Enough(last')
              /\ last'.act # "return" => (last'.act = "retry" /\ At(Slaves)')
              /\ last'.act = "return" <=> (op = "wait_for_dcos" => pc' = Srouter)
        /\ ("_wait_for_srouter_slaves_endpoints" \in Range(started')
            /\ "_wait_for_srouter_slaves_endpoints" \notin Range(started))
           => (At(Slaves) /\ C17_Enough(last')) ]_vars

C17_Witness ==
    /\ op = "wait_for_dcos"
    /\ last.m = Slaves
    /\ last.status = 200
    /\ last.n = Len(all_slaves)
    /\ last.n > 0
    /\ last.act = "return"
    /\ pc = Srouter
    /\ result = "none"

\* C18: an attempt of the quorum check returns only if its response has a
\* 2xx status and reports exactly as many nodes as master_list has hosts; a
\* response with another status, or with fewer or more nodes, makes the check
\* try again, whatever the number of attempts made, and never ends the call.
C18_Is2xx(status) == status >= 200 /\ status < 300

C18_Quorum ==
    [][ At(Zk)
        => /\ last'.act = "return"
              => /\ last'.rk = "response"
                 /\ C18_Is2xx(last'.status)
                 /\ last'.n = Len(master_list)
           /\ (last'.rk = "response"
               /\ (~C18_Is2xx(last'.status) \/ last'.n # Len(master_list)))
              => /\ last'.act = "retry"
                 /\ At(Zk)'
                 /\ result' = "none"
                 /\ attempt' = (IF attempt < MaxPoll THEN attempt + 1 ELSE attempt)
           /\ last'.act # "raise" ]_vars

C18_Witness ==
    /\ At(Zk)
    /\ last.m = Zk
    /\ last.status = 200
    /\ last.n > Len(master_list)
    /\ last.act = "retry"
    /\ attempt >= MaxPoll

\* C19: an attempt of the warm-up check sends the listing request and then
\* probes only agents that are listed with a hostname of all_slaves.  It
\* returns only if the listing answered 200 and every such agent was probed
\* and answered 200 with its own id.  A 502 on the listing, or a 404, 502 or
\* 503 on a probed agent, makes the attempt yield False, which is retried
\* while fewer than 60 attempts were made; any other status of the listing or
\* of a probed agent, and a 200 of an agent without its own id, ends the call
\* with AssertionError.
C19_Expected(l) == {AgentId(h) : h \in l.slaves \cap Range(all_slaves)}
C19_Probed(q) == {q[i].id : i \in 2..Len(q)}

C19_WarmUp ==
    [][ At(Srouter)
        => LET l == last'
               fatal == /\ l.act = "raise"
                        /\ l.exc = "AssertionError"
                        /\ result' = "AssertionError"
                        /\ ~Running'
           IN /\ sent'[1] = Req("/mesos/master/slaves")
              /\ \A i \in 2..Len(sent') : sent'[i] = AgentReq(sent'[i].id)
              /\ C19_Probed(sent') \subseteq C19_Expected(l)
              /\ l.act = "return"
                 => /\ l.rk = "response" /\ l.status = 200
                    /\ C19_Probed(sent') = C19_Expected(l)
                    /\ Len(sent') = 1 + Cardinality(C19_Expected(l))
                    /\ l.n = 0
              /\ (l.rk = "response" /\ l.status = 502)
                 => (l.value = "False" /\ Len(sent') = 1)
              /\ (l.n > 0 /\ l.rk2 = "response" /\ l.status2 \in {404, 502, 503})
                 => l.value = "False"
              /\ (l.value = "False" /\ attempt + 1 < 60)
                 => (l.act = "retry" /\ At(Srouter)')
              /\ (l.rk = "response" /\ l.status \notin {200, 502}) => fatal
              /\ (l.n > 0 /\ l.rk2 = "response" /\ l.status2 \notin {404, 502, 503})
                 => fatal ]_vars

C19_Witness ==
    /\ op = "wait_for_dcos"
    /\ last.m = Srouter
    /\ last.act = "return"
    /\ last.slaves # {}
    /\ Len(sent) = 1 + Cardinality(last.slaves)
    /\ pc = Metronome
    /\ attempt = 0

\* C20: an attempt of the health check that gets a response returns if and
\* only if the status is 2xx and no unit has a health other than 0; with a
\* 2xx status and such a unit the check tries again, whatever the number of
\* attempts made; a response with another status ends the call with
\* HTTPError; and wait_for_dcos returns only from a health attempt that
\* found every unit healthy.
C20_Is2xx(status) == status >= 200 /\ status < 300

C20_Healthy ==
    [][ /\ (At(Health) /\ last'.rk = "response")
           => /\ last'.act = "return" <=> (C20_Is2xx(last'.status) /\ last'.n = 0)
              /\ (C20_Is2xx(last'.status) /\ last'.n > 0)
                 => /\ last'.act = "retry"
                    /\ At(Health)'
                    /\ attempt' = (IF attempt < MaxPoll THEN attempt + 1 ELSE attempt)
              /\ ~C20_Is2xx(last'.status)
                 => /\ last'.act = "raise"
                    /\ result' = "HTTPError"
                    /\ ~Running'
        /\ (op' = "wait_for_dcos" /\ result' = "returned")
           => /\ last'.m = Health
              /\ last'.rk = "response"
              /\ C20_Is2xx(last'.status)
              /\ last'.n = 0
              /\ sent' = << Req("/system/health/v1/units") >> ]_vars

C20_Witness ==
    /\ op = "wait_for_dcos"
    /\ result = "returned"
    /\ last.m = Health
    /\ last.status = 200
    /\ last.n = 0
    /\ pc = "done"

\* C21: a run of set_node_lists_if_unset changes no list that is set; it
\* sends the exhibitor request only if master_list is None and one
\* /mesos/slaves request only if slave_list or public_slave_list is None;
\* and when it returns with both worker lists None before, every agent of
\* the response is in exactly one of the two lists: in public_slave_list if
\* its public_ip is 'true', in slave_list otherwise.
C21_Count(q, path) == Cardinality({i \in 1..Len(q) : q[i] = Req(path)})

C21_Discovery ==
    [][ At(Nodes)
        => /\ master_list # None => master_list' = master_list
           /\ slave_list # None => slave_list' = slave_list
           /\ public_slave_list # None => public_slave_list' = public_slave_list
           /\ C21_Count(sent', "/exhibitor/exhibitor/v1/cluster/list")
                 = (IF master_list = None THEN 1 ELSE 0)
           /\ C21_Count(sent', "/mesos/slaves") <= 1
           /\ C21_Count(sent', "/mesos/slaves") = 1
              => (slave_list = None \/ public_slave_list = None)
           /\ \A i \in 1..Len(sent') : IsDiscovery(sent'[i])
           /\ (last'.act = "return" /\ slave_list = None /\ public_slave_list = None)
              => /\ C21_Count(sent', "/mesos/slaves") = 1
                 /\ Range(public_slave_list') = last'.public
                 /\ Range(slave_list') = last'.slaves \ last'.public
                 /\ Range(slave_list') \cap Range(public_slave_list') = {}
                 /\ Len(slave_list') + Len(public_slave_list')
                       = Cardinality(last'.slaves) ]_vars

C21_Witness ==
    /\ last.m = Nodes
    /\ last.act = "return"
    /\ sent = << Req("/exhibitor/exhibitor/v1/cluster/list"), Req("/mesos/slaves") >>
    /\ last.public # {}
    /\ Range(public_slave_list) = last.public
    /\ slave_list = << >>
    /\ master_list # << >>

\* C22: when wait_for_dcos has returned, all three node lists are set and,
\* on a session with an auth_user, the token of that user is set; every
\* request of a statement after login (discovery or a readiness check) is
\* sent with the token already set and installed as the session auth; and on
\* a session without auth_user the login statement sends nothing and returns,
\* and the call goes on to the host-list check.
C22_AfterLogin ==
    { "set_node_lists_if_unset", "_wait_for_marathon_up", "_wait_for_zk_quorum",
      "_wait_for_slaves_to_join", "_wait_for_srouter_slaves_endpoints",
      "_wait_for_metronome", "_wait_for_all_healthy_services" }

C22_ReturnedLoggedIn ==
    [][ op' = "wait_for_dcos"
        => /\ result' = "returned"
              => /\ AllListsSet'
                 /\ auth_user' # "None" => auth_token' # NoToken
           /\ (Running /\ pc \in C22_AfterLogin /\ sent' # << >> /\ auth_user # "None")
              => /\ auth_token # NoToken
                 /\ session_auth = auth_token
                 /\ auth_token' = auth_token
           /\ (At(Login) /\ auth_user = "None")
              => /\ sent' = << >>
                 /\ last'.act = "return"
                 /\ Running'
                 /\ pc' = HostCheck
                 /\ session_auth' = NoToken ]_vars

C22_Witness ==
    /\ op = "wait_for_dcos"
    /\ result = "returned"
    /\ auth_user = "user"
    /\ auth_token \in Tokens
    /\ session_auth = auth_token
    /\ AllListsSet
    /\ Len(master_list) > 0

\* C23: an attempt of the gateway check returns on every response, whatever
\* its status, and tries again on a ConnectionError and on nothing else,
\* whatever the number of attempts made; in wait_for_dcos login and the
\* host-list check are started only after the gateway check has returned on
\* a response; and an attempt that cannot connect leaves the call running
\* in the gateway check, neither returned nor raised.
C23_Gateway ==
    [][ /\ At(AdminRouter)
           => /\ sent' = << Req("/") >>
              /\ last'.rk = "response"
                 => /\ last'.act = "return"
                    /\ Running'
                    /\ pc' = Login
              /\ last'.act = "return" => last'.rk = "response"
              /\ last'.act = "retry" <=> last'.rk = "ConnectionError"
              /\ last'.rk = "ConnectionError"
                 => /\ At(AdminRouter)'
                    /\ result' = "none"
                    /\ returned' = << >>
                    /\ started' = << AdminRouter >>
        /\ (op' = "wait_for_dcos"
            /\ (Login \in Range(started') \/ HostCheck \in Range(started')))
           => /\ returned'[1] = AdminRouter
              /\ Login \notin Range(started) => (At(AdminRouter) /\ last'.rk = "response")
      ]_vars

C23_Witness ==
    /\ op = "wait_for_dcos"
    /\ last.m = AdminRouter
    /\ last.rk = "response"
    /\ last.status = 503
    /\ last.act = "return"
    /\ pc = Login
    /\ result = "none"

\* C24: an attempt of login_default_user that fails (the request raises, the
\* response has an error status, or its body has no token) is followed by
\* another attempt 5000 ms later while less than 120000 ms have passed since
\* the first attempt, and otherwise ends the call with the exception of that
\* attempt; no call makes more than 25 attempts; and a failed attempt leaves
\* the token None and the session without auth, an auth being installed only
\* together with a token.
C24_Delay(lat) == elapsed + lat * 120000

C24_LoginGivesUp ==
    [][ /\ (At(Login) /\ op # "get_user_session" /\ last'.kind = "raise")
           => /\ IF C24_Delay(last'.n) < 120000
                 THEN /\ last'.act = "retry"
                      /\ At(Login)'
                      /\ elapsed' = C24_Delay(last'.n) + 5000
                      /\ attempt' = attempt + 1
                 ELSE /\ last'.act = "raise"
                      /\ last'.exc =
                            (IF last'.rk # "response" THEN last'.rk
                             ELSE IF last'.status >= 400 THEN "HTTPError"
                             ELSE "KeyError")
                      /\ result' = last'.exc
                      /\ ~Running'
              /\ auth_token' = NoToken
              /\ session_auth' = NoToken
        /\ (At(Login) /\ op # "get_user_session") => attempt < 25
        /\ session_auth' # session_auth
           => (session_auth' = auth_token' /\ auth_token' # NoToken) ]_vars

C24_Witness ==
    /\ op = "wait_for_dcos"
    /\ pc = Login
    /\ last.m = Login
    /\ last.act = "raise"
    /\ last.n = 0
    /\ result = "HTTPError"
    /\ auth_token = NoToken
    /\ session_auth = NoToken

====
